---- MODULE Spec2Model ----
(***************************************************************************)
(* A model of vijayshc/data_mcp:                                           *)
(*   - MCPClient.process_query (src/openai_mcp_client.py), the tool-calling *)
(*     orchestration loop, one action per suspension point of the          *)
(*     coroutine (list_tools, chat.completions.create, call_tool);         *)
(*   - validate_mapping (src/dataengineer.py), the schema validator, one   *)
(*     action per iteration of its table loop;                             *)
(*   - get_mapping_details (src/dataengineer.py), the mapping reader, as a *)
(*     function of the sheet and the reference name;                       *)
(*   - run_bash_shell and query_database (src/dataengineer.py), by how a   *)
(*     call ends;                                                          *)
(*   - main, connect_to_server, chat_loop and cleanup                      *)
(*     (src/openai_mcp_client.py), by what happens to the tool session;    *)
(*   - the monitor (src/mcp_monitor.py): its start and stop requests, its  *)
(*     reader threads and send_message, as interleaved threads.            *)
(* Python strings that the code builds by concatenation are sequences of   *)
(* pieces; None and the empty string are the empty sequence (both falsy).  *)
(***************************************************************************)
EXTENDS Naturals, Sequences, FiniteSets

VARIABLES
    pc,           \* position of process_query
    query,        \* the argument of process_query
    messages,     \* the transcript (local `messages`)
    message,      \* the completion being processed (local `message`)
    iter,         \* the rest of the list the for statement iterates
    tool_call,    \* the loop variable of the for statement
    loop,         \* local `loop`
    final_text,   \* local `final_text`
    returned,     \* the value process_query returned
    raised,       \* the exception that left process_query
    thrown,       \* log: the error the model backend or the tool session raised
    completions,  \* log: the completions received from the model backend
    dispatched,   \* log: the calls made to session.call_tool, with their results
    turns,        \* log: the iterations of the while statement begun
    vm_pc,        \* position of validate_mapping
    db,           \* the database: is it readable
    request,      \* the argument of validate_mapping
    tables_to_check, \* the rest of the list validate_mapping iterates
    available_tables,
    validations,
    lookups,      \* log: the tables whose columns were fetched
    vm_result,    \* the value validate_mapping returned
    gm_sheet,     \* mapping.xlsx as get_mapping_details finds it
    gm_log,       \* log: the calls of get_mapping_details, with what they returned
    tool_out,     \* the last call of run_bash_shell or query_database, and how it ended
    main_pc,      \* position of main
    argv,         \* sys.argv[1:]
    client,       \* main's local `client` exists
    exit_stack,   \* client.exit_stack: the contexts entered, oldest first
    session_log,  \* log: what happened to the tool-provider session and its process
    main_exc,     \* the exception propagating out of main's try block
    cleaned,      \* client.cleanup() has run
    queries,      \* log: the queries chat_loop has read
    chat_prev,    \* how the previous process_query of chat_loop ended
    mcp_process,  \* the monitor's globals mcp_server_process and mcp_client_process
    procs,        \* the processes the monitor has started, with their reader threads
    logs_buffer,  \* the monitor's global logs_buffer
    handler,      \* the position of each request-handling thread of the monitor
    response      \* log: the last response the monitor returned

pqvars == <<pc, query, messages, message, iter, tool_call, loop, final_text,
            returned, raised, thrown, completions, dispatched, turns>>
vmvars == <<vm_pc, db, request, tables_to_check, available_tables, validations,
            lookups, vm_result>>
gmvars == <<gm_sheet, gm_log>>
toolvars == <<tool_out>>
mainvars == <<main_pc, argv, client, exit_stack, session_log, main_exc, cleaned, queries,
              chat_prev>>
monvars == <<mcp_process, procs, logs_buffer, handler, response>>
extvars == <<gmvars, toolvars, mainvars, monvars>>
vars == <<pqvars, vmvars, extvars>>

----------------------------------------------------------------------------
(* Bounds of the exploration.                                              *)

\* The turn budget the specification asks for ("configurable, e.g. 10").
MaxTurns == 2

\* The source has no cap: the model stops asking the backend after this many
\* completions of one query.
MaxCompletions == MaxTurns + 2

\* The longest validate_mapping request.
MaxTables == 2

\* The most rows of mapping.xlsx.
MaxRows == 2

\* The most calls of get_mapping_details on one mapping.xlsx.
MaxLookups == 2

\* The most bytes a command writes to one of its pipes.
MaxBytes == 2

\* The most queries chat_loop reads.
MaxQueries == 2

\* The capacity of the monitor's log buffer (1000 in the source, line 32).
MAX_LOGS == 2

\* The most processes the monitor starts.
MaxProcs == 2

\* The source never stops appending: the model appends no more once the
\* buffer holds this many entries.
MaxAppends == MAX_LOGS + 2

----------------------------------------------------------------------------
(* Values.                                                                 *)

None == <<>>

NoCall == [id |-> 0, name |-> "", arguments |-> ""]

NoMessage == [content |-> None, tool_calls_none |-> TRUE, tool_calls |-> <<>>]

Queries == {"q1", "q2"}

\* The free text of the k-th completion, when it has any.
Texts == <<"text1", "text2", "text3", "text4", "text5", "text6", "text7">>

\* What the tool session answers: result.content.
ToolResults == {"rows", "error"}

\* The tools published by src/dataengineer.py.
ToolNames == {"get_mapping_details", "validate_mapping", "run_bash_shell", "query_database"}

\* The tool-call lists a completion may carry, before the backend gives them ids.
ToolCallShapes ==
    { <<>>,
      << [name |-> "validate_mapping", arguments |-> "{}"],
         [name |-> "query_database", arguments |-> "{}"] >>,
      << [name |-> "no_such_tool", arguments |-> "{}"] >>,
      << [name |-> "run_bash_shell", arguments |-> "{"] >> }

\* The id of the i-th tool call of the k-th completion: unique within a query.
CallId(k, i) == 10 * k + i

WithIds(k, shape) ==
    [i \in 1..Len(shape) |->
        [id |-> CallId(k, i), name |-> shape[i].name, arguments |-> shape[i].arguments]]

\* The completions the model backend may return as the k-th of a query:
\* message.content is None or a text, message.tool_calls is None or a list.
BackendCompletions(k) ==
    { [content |-> c, tool_calls_none |-> FALSE, tool_calls |-> WithIds(k, s)] :
        c \in {None, <<Texts[k]>>}, s \in ToolCallShapes }
    \cup
    { [content |-> c, tool_calls_none |-> TRUE, tool_calls |-> <<>>] :
        c \in {None, <<Texts[k]>>} }

----------------------------------------------------------------------------
(* Pure helpers of process_query.                                          *)

\* Python truthiness of a str-or-None / list-or-None value.
Truthy(v) == v # <<>>

\* json.loads(tool_call.function.arguments): does it parse.
JsonLoads(a) == a = "{}"

\* openai.APIError carries .body; McpError, TypeError, JSONDecodeError do not.
HasBody(e) == e = "APIError"

SystemInstruction == "system instruction"

InitialTranscript(q) ==
    << [role |-> "system", content |-> <<SystemInstruction>>, tool_calls |-> <<>>],
       [role |-> "user", content |-> <<q>>, tool_calls |-> <<>>] >>

RequestMessage(call) ==
    [role |-> "assistant", content |-> None,
     tool_calls |-> << [id |-> call.id, type |-> "function",
                        name |-> call.name, arguments |-> call.arguments] >>]

ResultMessage(call, result) ==
    [role |-> "assistant",
     content |-> <<"Response from tool ", call.name, "\n", result>>,
     tool_calls |-> <<>>]

ContinueMessage ==
    [role |-> "user", content |-> <<"Go to next step">>, tool_calls |-> <<>>]

\* Mutant: the result is appended before the request it answers.
AppendToolExchange_ResultFirst(msgs, call, result) ==
    msgs \o << ResultMessage(call, result), RequestMessage(call), ContinueMessage >>

\* Mutant: only the opening messages and the latest exchange are kept.
AppendToolExchange_KeepLatest(msgs, call, result) ==
    SubSeq(msgs, 1, 2)
        \o << RequestMessage(call), ResultMessage(call, result), ContinueMessage >>

\* The three appends of one loop iteration.
AppendToolExchange(msgs, call, result) ==
    msgs \o << RequestMessage(call), ResultMessage(call, result), ContinueMessage >>

CallingFragment(call) ==
    <<"[Calling tool ", call.name, " with args ", call.arguments, "]">>

\* Mutant: a new text replaces what was recorded before it.
AppendContent_Replace(ft, m) == IF Truthy(m.content) THEN <<m.content>> ELSE ft

\* if message.content: final_text.append(message.content)
AppendContent(ft, m) == IF Truthy(m.content) THEN Append(ft, m.content) ELSE ft

\* if hasattr(message, 'tool_calls') and message.tool_calls: loop + 1 else 0
NextLoop(l, m) == IF ~m.tool_calls_none /\ Truthy(m.tool_calls) THEN l + 1 ELSE 0

RECURSIVE Join(_)
\* "\n".join(final_text)
Join(ft) ==
    IF ft = <<>> THEN <<>>
    ELSE IF Len(ft) = 1 THEN ft[1]
    ELSE ft[1] \o <<"\n">> \o Join(Tail(ft))

\* except Exception as e: logger.exception(e.body); raise
ExceptHandler(e) ==
    /\ pc' = "raised"
    /\ raised' = IF HasBody(e) THEN e ELSE "AttributeError"

----------------------------------------------------------------------------
(* process_query                                                           *)

PQInit ==
    /\ pc = "idle"
    /\ query = ""
    /\ messages = <<>>
    /\ message = NoMessage
    /\ iter = <<>>
    /\ tool_call = NoCall
    /\ loop = 0
    /\ final_text = <<>>
    /\ returned = <<>>
    /\ raised = "None"
    /\ thrown = "None"
    /\ completions = <<>>
    /\ dispatched = <<>>
    /\ turns = 0

\* process_query is called: the transcript is built.
ProcessQuery ==
    /\ pc = "idle"
    /\ UNCHANGED <<vmvars, extvars>>
    /\ \E q \in Queries :
        /\ query' = q
        /\ messages' = InitialTranscript(q)
    /\ pc' = "list_tools"
    /\ UNCHANGED <<message, iter, tool_call, loop, final_text, returned, raised,
                   thrown, completions, dispatched, turns>>

\* await self.session.list_tools(), outside the try statement.
ListTools ==
    /\ pc = "list_tools"
    /\ UNCHANGED <<vmvars, extvars>>
    /\ \/ /\ pc' = "create"
          /\ UNCHANGED <<raised, thrown>>
       \/ /\ pc' = "raised"
          /\ raised' = "McpError"
          /\ thrown' = "McpError"
    /\ UNCHANGED <<query, messages, message, iter, tool_call, loop, final_text,
                   returned, completions, dispatched, turns>>

\* The initial chat.completions.create and the statements up to the while.
InitialCompletion ==
    /\ pc = "create"
    /\ UNCHANGED <<vmvars, extvars>>
    /\ \/ \E c \in BackendCompletions(1) :
            /\ completions' = Append(completions, c)
            /\ message' = c
            /\ final_text' = AppendContent(<<>>, c)
            /\ loop' = 1
            /\ pc' = "while"
            /\ UNCHANGED <<raised, thrown>>
       \/ /\ thrown' = "APIError"
          /\ ExceptHandler("APIError")
          /\ UNCHANGED <<completions, message, final_text, loop>>
    /\ UNCHANGED <<query, messages, iter, tool_call, returned, dispatched, turns>>

\* while loop>0: for tool_call in message.tool_calls  /  return
WhileLoop ==
    /\ pc = "while"
    /\ UNCHANGED <<vmvars, extvars>>
    /\ IF loop > 0
       THEN /\ turns < MaxCompletions
            /\ turns' = turns + 1
            /\ IF message.tool_calls_none
               THEN /\ ExceptHandler("TypeError")
                    /\ UNCHANGED <<iter, returned>>
               ELSE /\ iter' = message.tool_calls
                    /\ pc' = "for"
                    /\ UNCHANGED <<raised, returned>>
       ELSE /\ returned' = Join(final_text)
            /\ pc' = "returned"
            /\ UNCHANGED <<iter, raised, turns>>
    /\ UNCHANGED <<query, messages, message, tool_call, loop, final_text, thrown,
                   completions, dispatched>>

\* The for statement takes the next tool call, and json.loads its arguments.
ForNext ==
    /\ pc = "for"
    /\ UNCHANGED <<vmvars, extvars>>
    /\ IF iter = <<>>
       THEN /\ pc' = "while"
            /\ UNCHANGED <<iter, tool_call, raised>>
       ELSE /\ tool_call' = Head(iter)
            /\ iter' = Tail(iter)
            /\ IF JsonLoads(Head(iter).arguments)
               THEN pc' = "call_tool" /\ UNCHANGED raised
               ELSE ExceptHandler("JSONDecodeError")
    /\ UNCHANGED <<query, messages, message, loop, final_text, returned, thrown,
                   completions, dispatched, turns>>

\* await self.session.call_tool(...) and the appends that follow it.
CallTool ==
    /\ pc = "call_tool"
    /\ UNCHANGED <<vmvars, extvars>>
    /\ \/ \E r \in ToolResults :
            /\ tool_call.name \notin ToolNames => r = "error"
            /\ dispatched' = Append(dispatched,
                   [id |-> tool_call.id, name |-> tool_call.name, result |-> r,
                    after |-> Len(completions)])
            /\ final_text' = Append(final_text, CallingFragment(tool_call))
            /\ messages' = AppendToolExchange(messages, tool_call, r)
            /\ pc' = "create_next"
            /\ UNCHANGED <<raised, thrown>>
       \/ /\ thrown' = "McpError"
          /\ ExceptHandler("McpError")
          /\ UNCHANGED <<dispatched, final_text, messages>>
    /\ UNCHANGED <<query, message, iter, tool_call, loop, returned, completions, turns>>

\* The chat.completions.create inside the for statement.
NextCompletion ==
    /\ pc = "create_next"
    /\ UNCHANGED <<vmvars, extvars>>
    /\ \/ /\ Len(completions) < MaxCompletions
          /\ \E c \in BackendCompletions(Len(completions) + 1) :
                /\ completions' = Append(completions, c)
                /\ message' = c
                /\ loop' = NextLoop(loop, c)
                /\ final_text' = AppendContent(final_text, c)
                /\ pc' = "for"
                /\ UNCHANGED <<raised, thrown>>
       \/ /\ thrown' = "APIError"
          /\ ExceptHandler("APIError")
          /\ UNCHANGED <<completions, message, loop, final_text>>
    /\ UNCHANGED <<query, messages, iter, tool_call, returned, dispatched, turns>>

----------------------------------------------------------------------------
(* validate_mapping and the schema catalog readers.                        *)

\* The tables of testdb.db and their columns.
DbTables == <<"orders", "order items">>

Schema == [t \in {"orders", "order items"} |->
             IF t = "orders" THEN <<"id", "total">> ELSE <<"id", "qty">>]

\* The names that f"PRAGMA table_info({table_name})" can carry unquoted.
BareIdentifiers == {"orders", "missing"}

\* x in list
InSeq(x, s) == \E i \in DOMAIN s : s[i] = x

\* d.get(key, default)
Get(d, key, default) == IF key \in DOMAIN d THEN d[key] ELSE default

\* [f(x) for x in s if p(x)] with f the identity
RECURSIVE Filter(_, _)
Filter(s, keep) ==
    IF s = <<>> THEN <<>>
    ELSE IF keep[1] THEN <<s[1]>> \o Filter(Tail(s), Tail(keep))
    ELSE Filter(Tail(s), Tail(keep))

\* get_available_tables: the table names, or [] when the query fails.
GetAvailableTables(readable) == IF readable THEN DbTables ELSE <<>>

\* get_table_columns_json: the column names; [] when the statement fails
\* (an unreadable database, a name that does not parse unquoted) and when
\* the table has no rows in table_info.
GetTableColumnsJson(readable, table_name) ==
    IF readable /\ table_name \in BareIdentifiers /\ table_name \in DOMAIN Schema
    THEN Schema[table_name]
    ELSE <<>>

\* The requests: a dict with a 'tables' list, or the bare list.
TableNames == {"orders", "order items", "missing"}

ColumnLists == { <<>>, <<"id", "total">>, <<"total", "nope", "id">>, <<"nope">> }

TableDescriptors == [tablename : TableNames, columnNames : ColumnLists]

Requests ==
    [kind : {"dict", "list"},
     tables : UNION { [1..n -> TableDescriptors] : n \in 0..MaxTables }]

\* The inputs that are neither a dict with a 'tables' list nor a list: a
\* string, a number, None, a dict without 'tables', and a dict whose 'tables'
\* is a string or None.
MalformedKinds ==
    {"str", "int", "NoneType", "dict_no_tables", "dict_tables_str", "dict_tables_none"}

MalformedRequests == [kind : MalformedKinds, tables : {<<>>}]

\* Line 227: isinstance(tables_to_check, list). What line 222 reads from a
\* dict is the value under 'tables', a list only when the caller sent one; in
\* every other case tables_to_check is a list ([] or the input itself).
TablesIsList(req) == req.kind \notin {"dict_tables_str", "dict_tables_none"}

\* Lines 220-225: the list of table descriptors of the request.
TablesToCheck(req) ==
    LET fromDict == IF req.kind = "dict" THEN req.tables ELSE <<>>
    IN  IF fromDict = <<>> /\ req.kind = "list" THEN req.tables ELSE fromDict

\* Lines 253-257.
ColumnValidations(column_names, actual_columns) ==
    [i \in 1..Len(column_names) |->
        [column |-> column_names[i], exists |-> InSeq(column_names[i], actual_columns)]]

\* Mutant: the columns of a table that does not exist are checked all the same.
TableValidation_NoSkip(readable, table_data, available) ==
    [table |-> table_data.tablename,
     exists |-> InSeq(table_data.tablename, available),
     column_validations |->
         ColumnValidations(table_data.columnNames,
                           GetTableColumnsJson(readable, table_data.tablename)),
     valid_columns |-> <<>>,
     invalid_columns |-> <<>>]

\* Lines 236-266: the entry validate_mapping appends for one table descriptor.
TableValidation(readable, table_data, available) ==
    LET table_name == table_data.tablename
        column_names == table_data.columnNames
    IN  IF ~InSeq(table_name, available)
        THEN [table |-> table_name, exists |-> FALSE, column_validations |-> <<>>,
              errors |-> <<"Table does not exist in the database">>]
        ELSE LET cv == ColumnValidations(column_names,
                                         GetTableColumnsJson(readable, table_name))
                 ex == [i \in 1..Len(cv) |-> cv[i].exists]
                 names == [i \in 1..Len(cv) |-> cv[i].column]
             IN  [table |-> table_name, exists |-> TRUE, column_validations |-> cv,
                  valid_columns |-> Filter(names, ex),
                  invalid_columns |-> Filter(names, [i \in 1..Len(cv) |-> ~ex[i]])]

\* Line 250 is reached only for a table that exists.
ColumnLookups(table_data, available) ==
    IF InSeq(table_data.tablename, available) THEN <<table_data.tablename>> ELSE <<>>

\* Mutant: the invalid columns are not looked at.
AllValid_ExistsOnly(vs) == \A i \in DOMAIN vs : vs[i].exists

\* Lines 269-270.
AllValid(vs) ==
    /\ \A i \in DOMAIN vs : vs[i].exists
    /\ \A i \in DOMAIN vs : ~Truthy(Get(vs[i], "invalid_columns", <<>>))

NoResult == [success |-> FALSE, valid |-> FALSE, validations |-> <<>>, errors |-> <<>>]

VMIdle ==
    /\ vm_pc = "idle"
    /\ db = TRUE
    /\ request = [kind |-> "list", tables |-> <<>>]
    /\ tables_to_check = <<>>
    /\ available_tables = <<>>
    /\ validations = <<>>
    /\ lookups = <<>>
    /\ vm_result = NoResult

\* The tool is called with a well-formed request.
VMInit ==
    /\ vm_pc = "start"
    /\ db \in BOOLEAN
    /\ request \in Requests
    /\ tables_to_check = <<>>
    /\ available_tables = <<>>
    /\ validations = <<>>
    /\ lookups = <<>>
    /\ vm_result = NoResult

\* Lines 227-228: the structured failure for an input of the wrong format.
FormatFailure ==
    [success |-> FALSE, validations |-> <<>>,
     errors |-> <<"Invalid input format: expected 'tables' list">>]

\* Lines 218-232.
ValidateStart ==
    /\ vm_pc = "start"
    /\ UNCHANGED <<pqvars, extvars>>
    /\ IF TablesIsList(request)
       THEN /\ tables_to_check' = TablesToCheck(request)
            /\ available_tables' = GetAvailableTables(db)
            /\ validations' = <<>>
            /\ vm_pc' = "loop"
            /\ UNCHANGED vm_result
       ELSE /\ vm_result' = FormatFailure
            /\ vm_pc' = "done"
            /\ UNCHANGED <<tables_to_check, available_tables, validations>>
    /\ UNCHANGED <<db, request, lookups>>

\* Lines 235-266: one iteration of the for statement.
ValidateTable ==
    /\ vm_pc = "loop"
    /\ UNCHANGED <<pqvars, extvars>>
    /\ tables_to_check # <<>>
    /\ validations' = Append(validations,
                             TableValidation(db, Head(tables_to_check), available_tables))
    /\ lookups' = lookups \o ColumnLookups(Head(tables_to_check), available_tables)
    /\ tables_to_check' = Tail(tables_to_check)
    /\ UNCHANGED <<vm_pc, db, request, available_tables, vm_result>>

\* Lines 268-277.
ValidateReturn ==
    /\ vm_pc = "loop"
    /\ UNCHANGED <<pqvars, extvars>>
    /\ tables_to_check = <<>>
    /\ vm_result' = [success |-> TRUE, valid |-> AllValid(validations),
                     validations |-> validations, errors |-> <<>>]
    /\ vm_pc' = "done"
    /\ UNCHANGED <<db, request, tables_to_check, available_tables, validations, lookups>>

----------------------------------------------------------------------------
(* get_mapping_details                                                     *)

\* A blank cell as pandas reads it, and Python's None.
NaN == "NaN"
Null == "None"

\* pd.isna(value)
IsNa(v) == v = NaN

\* Truthiness of a cell of a normalized record: None and "" are falsy.
TruthyCell(v) == v # Null /\ v # ""

\* Line 62-68.
RequiredColumns ==
    << "Mapping Name", "Type", "Alias", "Full Table Name / Subquery Definition",
       "Join Type", "Left Alias", "Right Alias", "Join Condition", "Load Strategy",
       "Source Data Type (Expected Result)", "Target Field Name", "Target Data Type",
       "Target Description", "Target PK", "Transformation Type",
       "Transformation Logic / Expression", "Default Value", "Is Active" >>

\* Line 70.
MappingRefColHeader == "Mapping Name"

\* Lines 119-138: the normalized field names, in the order of RequiredColumns.
NormalizedNames ==
    << "mapping_name", "type", "alias", "definition", "join_type", "left_alias",
       "right_alias", "join_condition", "load_strategy", "source_data_type",
       "target_field_name", "target_data_type", "target_description", "target_pk",
       "transformation_type", "transformation_logic", "default_value", "is_active" >>

Range(seq) == {seq[i] : i \in DOMAIN seq}

\* Series.astype(str): a blank cell becomes the text "nan".
AsStr(v) == IF IsNa(v) THEN "nan" ELSE v

\* str.lower() on the names used here.
LowerStr(t) ==
    CASE t = "Orders_To_Fact" -> "orders_to_fact"
      [] t = "ORDERS_TO_FACT" -> "orders_to_fact"
      [] t = "NaN" -> "nan"
      [] t = "QUIT" -> "quit"
      [] OTHER -> t

\* mapping.xlsx: the header rows a sheet may have.
RenamedColumns == <<"Name">> \o Tail(RequiredColumns)

ShortColumns == SubSeq(RequiredColumns, 1, Len(RequiredColumns) - 1)

BlankRow == [h \in Range(RequiredColumns) \cup {"Name"} |-> NaN]

\* The rows a sheet may hold, as cells by header ("Name" repeats the identity).
NamedRow(name, type) ==
    [BlankRow EXCEPT !["Mapping Name"] = name, !["Name"] = name, !["Type"] = type]

RowTemplates ==
    { [NamedRow("Orders_To_Fact", "Table") EXCEPT
          !["Alias"] = "o", !["Full Table Name / Subquery Definition"] = "orders"],
      [NamedRow("orders_to_fact", "Field Mapping") EXCEPT
          !["Alias"] = "o", !["Full Table Name / Subquery Definition"] = "total",
          !["Target Field Name"] = "order_total"],
      [NamedRow("orders_to_fact", "Field Mapping") EXCEPT
          !["Target Field Name"] = "order_sum",
          !["Transformation Logic / Expression"] = "SUM(o.total)"],
      [NamedRow("orders_to_fact", "Field Mapping") EXCEPT
          !["Alias"] = "o", !["Full Table Name / Subquery Definition"] = "name",
          !["Target Field Name"] = "order_name",
          !["Transformation Logic / Expression"] = "UPPER(o.name)"],
      [NamedRow("orders_to_fact", "Field Mapping") EXCEPT
          !["Full Table Name / Subquery Definition"] = "total",
          !["Target Field Name"] = "order_total"],
      [NamedRow("orders_to_fact", "Target") EXCEPT
          !["Alias"] = "f", !["Load Strategy"] = "append"],
      [NamedRow("ORDERS_TO_FACT", "Target") EXCEPT
          !["Alias"] = "g", !["Load Strategy"] = "overwrite"],
      [NamedRow("customers", "Table") EXCEPT
          !["Alias"] = "c", !["Full Table Name / Subquery Definition"] = "customers"],
      NamedRow(NaN, "Filter") }

Restrict(f, S) == [h \in S |-> f[h]]

RowLists == UNION { [1..n -> RowTemplates] : n \in 0..MaxRows }

SheetWith(columns, rows) ==
    [exists |-> TRUE, readable |-> TRUE, columns |-> columns,
     rows |-> [i \in DOMAIN rows |-> Restrict(rows[i], Range(columns))]]

NoSheet == [exists |-> FALSE, readable |-> FALSE, columns |-> <<>>, rows |-> <<>>]

\* mapping.xlsx: absent, unreadable, without columns, or a sheet of rows under
\* one of the header rows.
Sheets ==
    { NoSheet,
      [exists |-> TRUE, readable |-> FALSE, columns |-> <<>>, rows |-> <<>>],
      SheetWith(<<>>, <<>>) }
    \cup { SheetWith(c, r) :
             c \in {RequiredColumns, RenamedColumns, ShortColumns}, r \in RowLists }

ReferenceNames == {"orders_to_fact", "Orders_To_Fact", "customers", "missing", "nan"}

\* Lines 74-79, 88-93, 100-105, 111-116, 192-197: a failure result.
Failure(error, name) ==
    [success |-> FALSE, mapping_data |-> <<>>, errors |-> <<error>>,
     metadata |-> [mapping_reference_name |-> name]]

\* Lines 83-95: the mapping reference column; "" when the sheet has no column.
ActualMappingRefCol(columns) ==
    IF ~InSeq(MappingRefColHeader, columns)
    THEN IF Len(columns) > 0 THEN columns[1] ELSE ""
    ELSE MappingRefColHeader

\* Line 98.
MissingCols(columns) ==
    Filter(RequiredColumns, [i \in DOMAIN RequiredColumns |-> ~InSeq(RequiredColumns[i], columns)])

\* Mutant: the reference name is compared as it is written.
FilterRows_CaseSensitive(rows, col, name) ==
    Filter(rows, [i \in DOMAIN rows |-> AsStr(rows[i][col]) = name])

\* Mutant: every row is kept, whatever its identity.
FilterRows_NoFilter(rows, col, name) == rows

\* Line 108: the rows whose identity equals the name, case-insensitively.
FilterRows(rows, col, name) ==
    Filter(rows, [i \in DOMAIN rows |-> LowerStr(AsStr(rows[i][col])) = LowerStr(name)])

\* Lines 119-144: the renamed record of a row, with None for blank cells.
NormalizedRecord(row) ==
    [k \in Range(NormalizedNames) |->
        LET h == RequiredColumns[CHOOSE i \in DOMAIN NormalizedNames : NormalizedNames[i] = k]
        IN  IF IsNa(row[h]) THEN Null ELSE row[h]]

MappingData(rows) == [i \in DOMAIN rows |-> NormalizedRecord(rows[i])]

\* Line 172 raises TypeError: None + "." when the alias is blank.
ExpressionRaises(rec) ==
    /\ TruthyCell(rec.definition)
    /\ ~TruthyCell(rec.transformation_logic)
    /\ rec.alias = Null

\* Line 172: (logic or alias + "." + definition) if definition else None.
Expression(rec) ==
    IF TruthyCell(rec.definition)
    THEN IF TruthyCell(rec.transformation_logic)
         THEN <<rec.transformation_logic>>
         ELSE <<rec.alias, ".", rec.definition>>
    ELSE None

TypedRecords(mapping_data, types) ==
    Filter(mapping_data, [i \in DOMAIN mapping_data |-> mapping_data[i].type \in types])

EmptyDict == [k \in {} |-> Null]

\* Mutant: the last Target row is used.
TargetHint_Last(mapping_data) ==
    LET targets == TypedRecords(mapping_data, {"Target"})
    IN  IF targets # <<>>
        THEN [alias |-> targets[Len(targets)].alias,
              load_strategy |-> targets[Len(targets)].load_strategy]
        ELSE EmptyDict

\* Lines 165-168: next(... for rec in mapping_data if type is Target) if any
\* row is a Target, else {}.
TargetHint(mapping_data) ==
    LET targets == TypedRecords(mapping_data, {"Target"})
    IN  IF targets # <<>>
        THEN [alias |-> targets[1].alias,
              load_strategy |-> targets[1].load_strategy]
        ELSE EmptyDict

\* Lines 147-178: sql_generation_hints.
SqlGenerationHints(mapping_data) ==
    LET tables == TypedRecords(mapping_data, {"Table", "Subquery"})
        joins == TypedRecords(mapping_data, {"Join"})
        filters == TypedRecords(mapping_data, {"Filter"})
        fields == TypedRecords(mapping_data, {"Field Mapping"})
    IN  [tables |-> [i \in DOMAIN tables |->
                        [alias |-> tables[i].alias, definition |-> tables[i].definition,
                         type |-> tables[i].type]],
         joins |-> [i \in DOMAIN joins |->
                        [join_type |-> joins[i].join_type, left_alias |-> joins[i].left_alias,
                         right_alias |-> joins[i].right_alias,
                         condition |-> joins[i].join_condition]],
         filters |-> [i \in DOMAIN filters |->
                        [alias |-> filters[i].alias, condition |-> filters[i].join_condition]],
         target |-> TargetHint(mapping_data),
         field_mappings |-> [i \in DOMAIN fields |->
                        [target_field |-> fields[i].target_field_name,
                         expression |-> Expression(fields[i]),
                         default |-> fields[i].default_value,
                         is_active |-> fields[i].is_active]]]

HintsRaise(mapping_data) ==
    \E i \in DOMAIN mapping_data :
        mapping_data[i].type = "Field Mapping" /\ ExpressionRaises(mapping_data[i])

NoHints == [computed |-> FALSE]

\* Lines 180-189: what a successful call returns.
SuccessResult(mapping_data, hints, name) ==
    [success |-> TRUE, mapping_data |-> mapping_data, errors |-> <<>>,
     metadata |-> [mapping_reference_name |-> name]]

\* Lines 61-197: the result of get_mapping_details and the hints it computed.
GetMappingDetails(sheet, name) ==
    IF ~sheet.exists
    THEN [result |-> Failure(<<"Mapping file not found at ", "mapping.xlsx">>, name),
          hints |-> NoHints]
    ELSE IF ~sheet.readable
    THEN [result |-> Failure(<<"An error occurred while processing the mapping file: ",
                               "read_excel">>, name),
          hints |-> NoHints]
    ELSE IF ~InSeq(MappingRefColHeader, sheet.columns) /\ Len(sheet.columns) = 0
    THEN [result |-> Failure(<<"Mapping file has no columns.">>, name), hints |-> NoHints]
    ELSE IF MissingCols(sheet.columns) # <<>>
    THEN [result |-> Failure(<<"Missing required columns in mapping file: ">>
                               \o MissingCols(sheet.columns), name),
          hints |-> NoHints]
    ELSE LET filtered == FilterRows(sheet.rows, ActualMappingRefCol(sheet.columns), name)
             mapping_data == MappingData(filtered)
         IN  IF filtered = <<>>
             THEN [result |-> Failure(<<"No mapping found for reference name: ", name>>, name),
                   hints |-> NoHints]
             ELSE IF HintsRaise(mapping_data)
             THEN [result |-> Failure(<<"An error occurred while processing the mapping file: ",
                                        "TypeError">>, name),
                   hints |-> NoHints]
             ELSE [result |-> SuccessResult(mapping_data,
                                            SqlGenerationHints(mapping_data), name),
                   hints |-> [computed |-> TRUE,
                              sql_generation_hints |-> SqlGenerationHints(mapping_data)]]

GMIdle ==
    /\ gm_sheet = NoSheet
    /\ gm_log = <<>>

\* mapping.xlsx is in some state; the tool has not been called.
GMInit ==
    /\ gm_sheet \in Sheets
    /\ gm_log = <<>>

\* The tool is called with a reference name.
GetMappingDetailsCall ==
    /\ Len(gm_log) < MaxLookups
    /\ \E name \in ReferenceNames :
         gm_log' = Append(gm_log, [name |-> name, out |-> GetMappingDetails(gm_sheet, name)])
    /\ UNCHANGED <<gm_sheet, pqvars, vmvars, toolvars, mainvars, monvars>>

----------------------------------------------------------------------------
(* run_bash_shell and query_database                                       *)

\* The bytes a command may write: a space, the letter a, and 0xFF, which no
\* UTF-8 text contains.
Bytes == {32, 97, 255}

ByteStrings == UNION {[1..n -> Bytes] : n \in 0..MaxBytes}

\* bytes.decode() raises UnicodeDecodeError on these.
DecodeRaises(b) == \E i \in DOMAIN b : b[i] = 255

\* bytes.decode(): the characters of decodable bytes.
Decode(b) == [i \in DOMAIN b |-> IF b[i] = 32 THEN " " ELSE "a"]

RECURSIVE LStrip(_)
LStrip(t) == IF t # <<>> /\ Head(t) = " " THEN LStrip(Tail(t)) ELSE t

RECURSIVE RStrip(_)
RStrip(t) ==
    IF t # <<>> /\ t[Len(t)] = " " THEN RStrip(SubSeq(t, 1, Len(t) - 1)) ELSE t

\* str.strip()
Strip(t) == RStrip(LStrip(t))

\* How a call of a tool function ended: with a value, or with an exception
\* leaving the function.
ToolReturns(v) == [raised |-> "", out |-> v]
ToolRaises(e) == [raised |-> e, out |-> None]

\* Lines 288-299.  create_subprocess_shell either starts the command or
\* raises; the command writes stdout and stderr.
RunBashShellBody(spawned, stdout, stderr) ==
    IF ~spawned THEN ToolRaises("OSError")
    ELSE IF DecodeRaises(stdout) \/ DecodeRaises(stderr)
         THEN ToolRaises("UnicodeDecodeError")
         ELSE LET out == Strip(Decode(stdout))
                  err == Strip(Decode(stderr))
              IN  ToolReturns(IF err # <<>>
                              THEN out \o <<"\nSTDERR:\n">> \o err
                              ELSE out)

\* The statements query_database may be given.
SqlQueries ==
    {[table |-> "orders", wellformed |-> TRUE],
     [table |-> "missing", wellformed |-> TRUE],
     [table |-> "orders", wellformed |-> FALSE]}

\* Lines 304-312: every failure inside the try becomes {"error": str(e)}.
QueryDatabaseBody(readable, q) ==
    IF ~readable THEN ToolReturns([error |-> "unable to open database file"])
    ELSE IF ~q.wellformed THEN ToolReturns([error |-> "syntax error"])
    ELSE IF q.table \notin DOMAIN Schema THEN ToolReturns([error |-> "no such table"])
    ELSE ToolReturns([rows |-> <<>>, columns |-> Schema[q.table]])

NoToolCall == [tool |-> "", input |-> None, raised |-> "", out |-> None]

ToolsIdle == tool_out = NoToolCall

RunBashShell ==
    /\ tool_out = NoToolCall
    /\ \E spawned \in BOOLEAN, stdout \in ByteStrings, stderr \in ByteStrings :
         LET r == RunBashShellBody(spawned, stdout, stderr)
         IN  tool_out' = [tool |-> "run_bash_shell",
                          input |-> [spawned |-> spawned, stdout |-> stdout,
                                     stderr |-> stderr],
                          raised |-> r.raised, out |-> r.out]
    /\ UNCHANGED <<pqvars, vmvars, gmvars, mainvars, monvars>>

QueryDatabase ==
    /\ tool_out = NoToolCall
    /\ \E readable \in BOOLEAN, q \in SqlQueries :
         LET r == QueryDatabaseBody(readable, q)
         IN  tool_out' = [tool |-> "query_database",
                          input |-> [readable |-> readable, query |-> q],
                          raised |-> r.raised, out |-> r.out]
    /\ UNCHANGED <<pqvars, vmvars, gmvars, mainvars, monvars>>

----------------------------------------------------------------------------
(* main, connect_to_server, chat_loop and cleanup                          *)

\* sys.argv[1:], a path as its stem and its suffix.
Argvs == {<<>>, <<<<"server", ".py">>>>, <<<<"server", ".js">>>>, <<<<"server", ".sh">>>>}

\* str.endswith
EndsWith(path, suffix) == path # <<>> /\ path[Len(path)] = suffix

\* Where connect_to_server may fail once the path is accepted.
ConnectFailures == {"none", "stdio_client", "ClientSession", "initialize", "list_tools"}

\* Lines 54-61: the contexts entered and the session calls completed when
\* connect_to_server stops at `failure`.
ConnectStack(failure) ==
    CASE failure = "stdio_client" -> <<>>
      [] failure = "ClientSession" -> <<"stdio_client">>
      [] OTHER -> <<"stdio_client", "ClientSession">>

ConnectEvents(failure) ==
    CASE failure = "stdio_client" -> <<>>
      [] failure = "ClientSession" -> <<"spawn">>
      [] failure = "initialize" -> <<"spawn", "open">>
      [] failure = "list_tools" -> <<"spawn", "open", "initialize">>
      [] OTHER -> <<"spawn", "open", "initialize", "list_tools">>

\* Mutant: an exception leaves main without the finally clause.
OnException_NoFinally == "exited"

\* Lines 208-212: an exception in the try block runs the finally clause.
OnException == "cleanup"

\* Lines 198-200: AsyncExitStack.aclose() leaves the contexts, newest first.
RECURSIVE Aclose(_)
Aclose(stack) ==
    IF stack = <<>> THEN <<>>
    ELSE <<IF stack[Len(stack)] = "ClientSession" THEN "close" ELSE "terminate">>
         \o Aclose(SubSeq(stack, 1, Len(stack) - 1))

\* What input() gives chat_loop: a line, end of input, or an interrupt.
ChatInputs ==
    {[kind |-> "line", text |-> <<"quit">>],
     [kind |-> "line", text |-> <<" ", "QUIT", " ">>],
     [kind |-> "line", text |-> <<"q1">>],
     [kind |-> "EOFError", text |-> <<>>],
     [kind |-> "KeyboardInterrupt", text |-> <<>>]}

\* Line 189: query.lower() == 'quit'
IsQuit(q) == Len(q) = 1 /\ LowerStr(q[1]) = "quit"

\* The session calls of one process_query that dispatches n tool calls (lines
\* 88 and 128).
QueryEvents(n) == <<"list_tools">> \o [i \in 1..n |-> "call_tool"]

MainIdle ==
    /\ main_pc = "idle"
    /\ argv = <<>>
    /\ client = FALSE
    /\ exit_stack = <<>>
    /\ session_log = <<>>
    /\ main_exc = ""
    /\ cleaned = FALSE
    /\ queries = 0
    /\ chat_prev = "none"

MainInit ==
    /\ main_pc = "start"
    /\ argv \in Argvs
    /\ client = FALSE
    /\ exit_stack = <<>>
    /\ session_log = <<>>
    /\ main_exc = ""
    /\ cleaned = FALSE
    /\ queries = 0
    /\ chat_prev = "none"

\* Lines 203-207: the usage check, then MCPClient().
Main ==
    /\ main_pc = "start"
    /\ IF Len(argv) < 1
       THEN /\ main_pc' = "exited"
            /\ main_exc' = "SystemExit"
            /\ UNCHANGED client
       ELSE \E constructed \in BOOLEAN :
              /\ client' = constructed
              /\ main_pc' = IF constructed THEN "connect" ELSE "exited"
              /\ main_exc' = IF constructed THEN "" ELSE "OpenAIError"
    /\ UNCHANGED <<argv, exit_stack, session_log, cleaned, queries, chat_prev>>
    /\ UNCHANGED <<pqvars, vmvars, gmvars, toolvars, monvars>>

\* Lines 37-64, called at line 209.
ConnectToServer ==
    /\ main_pc = "connect"
    /\ IF ~(EndsWith(argv[1], ".py") \/ EndsWith(argv[1], ".js"))
       THEN /\ main_exc' = "ValueError"
            /\ main_pc' = OnException
            /\ UNCHANGED <<exit_stack, session_log>>
       ELSE \E failure \in ConnectFailures :
              /\ exit_stack' = ConnectStack(failure)
              /\ session_log' = ConnectEvents(failure)
              /\ main_exc' = IF failure = "none" THEN "" ELSE "Exception"
              /\ main_pc' = IF failure = "none" THEN "chat" ELSE OnException
    /\ UNCHANGED <<argv, client, cleaned, queries, chat_prev>>
    /\ UNCHANGED <<pqvars, vmvars, gmvars, toolvars, monvars>>

\* Lines 185-196: one iteration of the while statement.
ChatLoop ==
    /\ main_pc = "chat"
    /\ \E inp \in ChatInputs :
         CASE inp.kind = "KeyboardInterrupt" ->
                /\ main_exc' = "KeyboardInterrupt"
                /\ main_pc' = OnException
                /\ UNCHANGED <<session_log, queries>>
           [] inp.kind = "EOFError" ->
                UNCHANGED <<main_exc, main_pc, session_log, queries>>
           [] OTHER ->
                IF IsQuit(Strip(inp.text))
                THEN /\ main_pc' = "cleanup"
                     /\ UNCHANGED <<main_exc, session_log, queries>>
                ELSE /\ queries < MaxQueries
                     /\ queries' = queries + 1
                     /\ \E n \in 0..MaxTurns :
                          session_log' = session_log \o QueryEvents(n)
                     /\ UNCHANGED <<main_exc, main_pc>>
    /\ UNCHANGED <<argv, client, exit_stack, cleaned, chat_prev>>
    /\ UNCHANGED <<pqvars, vmvars, gmvars, toolvars, monvars>>

\* Lines 198-200, called at line 212.
Cleanup ==
    /\ main_pc = "cleanup"
    /\ session_log' = session_log \o Aclose(exit_stack)
    /\ exit_stack' = <<>>
    /\ cleaned' = TRUE
    /\ main_pc' = "exited"
    /\ UNCHANGED <<argv, client, main_exc, queries, chat_prev>>
    /\ UNCHANGED <<pqvars, vmvars, gmvars, toolvars, monvars>>

\* Mutant: chat_loop has no except clause, and the error leaves it.
AfterQuery_Rethrow(outcome) == IF outcome = "error" THEN OnException ELSE "chat"

\* Lines 192-196: the response is logged, or the Exception is caught and
\* printed; either way the while statement goes on.
AfterQuery(outcome) == "chat"

\* The client is connected and chat_loop waits for its first query.
MainConnected ==
    /\ main_pc = "chat"
    /\ argv = <<<<"server", ".py">>>>
    /\ client = TRUE
    /\ exit_stack = ConnectStack("none")
    /\ session_log = ConnectEvents("none")
    /\ main_exc = ""
    /\ cleaned = FALSE
    /\ queries = 0
    /\ chat_prev = "none"

\* Lines 185-196: process_query has returned or raised into chat_loop, whose
\* next iteration reads a query; the locals of the finished call are gone.
ChatLoopNext ==
    /\ main_pc = "chat"
    /\ pc \in {"returned", "raised"}
    /\ chat_prev' = IF pc = "returned" THEN "response" ELSE "error"
    /\ main_pc' = AfterQuery(chat_prev')
    /\ pc' = "idle"
    /\ query' = ""
    /\ messages' = <<>>
    /\ message' = NoMessage
    /\ iter' = <<>>
    /\ tool_call' = NoCall
    /\ loop' = 0
    /\ final_text' = <<>>
    /\ returned' = <<>>
    /\ raised' = "None"
    /\ thrown' = "None"
    /\ completions' = <<>>
    /\ dispatched' = <<>>
    /\ turns' = 0
    /\ UNCHANGED <<argv, client, exit_stack, session_log, main_exc, cleaned, queries>>
    /\ UNCHANGED <<vmvars, gmvars, toolvars, monvars>>

----------------------------------------------------------------------------
(* mcp_monitor: the start and stop requests, the reader threads and        *)
(* send_message.  The request handlers and the reader threads run as       *)
(* threads of one process; a step is what one thread does between two      *)
(* points where another thread may run.                                    *)

Kinds == {"server", "client"}

\* The threads that handle requests.
Handlers == {"h1", "h2"}

NoProcess == 0

HandlerIdle == [pc |-> "idle", kind |-> ""]

NoResponse == [route |-> "", status |-> ""]

\* process.poll() is None
Poll(pid) == procs[pid].alive

\* mcp_server_process and mcp_server_process.poll() is None
Running(kind) == mcp_process[kind] # NoProcess /\ Poll(mcp_process[kind])

\* Lines 40-44 and 203-207: a log entry (the timestamp is left out).
LogEntry(type) == [type |-> type]

MonIdle ==
    /\ mcp_process = [k \in Kinds |-> NoProcess]
    /\ procs = <<>>
    /\ logs_buffer = <<>>
    /\ handler = [t \in Handlers |-> HandlerIdle]
    /\ response = NoResponse

\* Lines 98-99 and 150-151: a start request tests whether the process runs.
StartCheck ==
    /\ \E t \in Handlers, kind \in Kinds :
         /\ handler[t] = HandlerIdle
         /\ Len(procs) + Cardinality({u \in Handlers : handler[u].pc = "spawn"}) < MaxProcs
         /\ IF Running(kind)
            THEN /\ response' = [route |-> "start_" \o kind, status |-> "already_running"]
                 /\ UNCHANGED handler
            ELSE /\ handler' = [handler EXCEPT ![t] = [pc |-> "spawn", kind |-> kind]]
                 /\ UNCHANGED response
    /\ UNCHANGED <<mcp_process, procs, logs_buffer>>
    /\ UNCHANGED <<pqvars, vmvars, gmvars, toolvars, mainvars>>

\* Lines 101-122 and 153-174: Popen, the assignment of the global, and the
\* start of the reader thread; or Popen raises.
StartSpawn ==
    /\ \E t \in Handlers :
         /\ handler[t].pc = "spawn"
         /\ \/ /\ procs' = Append(procs, [kind |-> handler[t].kind, alive |-> TRUE,
                                          reader |-> "loop"])
               /\ mcp_process' = [mcp_process EXCEPT ![handler[t].kind] = Len(procs) + 1]
               /\ response' = [route |-> "start_" \o handler[t].kind, status |-> "started"]
            \/ /\ response' = [route |-> "start_" \o handler[t].kind, status |-> "error"]
               /\ UNCHANGED <<procs, mcp_process>>
         /\ handler' = [handler EXCEPT ![t] = HandlerIdle]
    /\ UNCHANGED logs_buffer
    /\ UNCHANGED <<pqvars, vmvars, gmvars, toolvars, mainvars>>

\* Lines 124-143 and 176-195: a stop request; terminate() signals the process,
\* which has exited or not when the request returns.
StopProcess ==
    /\ \E t \in Handlers, kind \in Kinds :
         /\ handler[t] = HandlerIdle
         /\ IF ~Running(kind)
            THEN /\ response' = [route |-> "stop_" \o kind, status |-> "not_running"]
                 /\ UNCHANGED procs
            ELSE /\ response' = [route |-> "stop_" \o kind, status |-> "stopped"]
                 /\ \/ procs' = [procs EXCEPT ![mcp_process[kind]].alive = FALSE]
                    \/ UNCHANGED procs
    /\ UNCHANGED <<mcp_process, logs_buffer, handler>>
    /\ UNCHANGED <<pqvars, vmvars, gmvars, toolvars, mainvars>>

\* A started process exits.
ProcessExit ==
    /\ \E pid \in DOMAIN procs :
         /\ procs[pid].alive
         /\ procs' = [procs EXCEPT ![pid].alive = FALSE]
    /\ UNCHANGED <<mcp_process, logs_buffer, handler, response>>
    /\ UNCHANGED <<pqvars, vmvars, gmvars, toolvars, mainvars>>

\* Lines 36-46: the reader thread of a running process reads a line and
\* appends its entry.
StreamAppend ==
    /\ \E pid \in DOMAIN procs :
         /\ procs[pid].reader = "loop"
         /\ Poll(pid)
         /\ Len(logs_buffer) < MaxAppends
         /\ logs_buffer' = Append(logs_buffer, LogEntry(procs[pid].kind))
         /\ procs' = [procs EXCEPT ![pid].reader = "appended"]
    /\ UNCHANGED <<mcp_process, handler, response>>
    /\ UNCHANGED <<pqvars, vmvars, gmvars, toolvars, mainvars>>

\* Lines 47-48: if len(logs_buffer) > MAX_LOGS: logs_buffer.pop(0)
StreamTrim ==
    /\ \E pid \in DOMAIN procs :
         /\ procs[pid].reader = "appended"
         /\ logs_buffer' = IF Len(logs_buffer) > MAX_LOGS
                           THEN Tail(logs_buffer)
                           ELSE logs_buffer
         /\ procs' = [procs EXCEPT ![pid].reader = "loop"]
    /\ UNCHANGED <<mcp_process, handler, response>>
    /\ UNCHANGED <<pqvars, vmvars, gmvars, toolvars, mainvars>>

\* Lines 197-213: send_message appends the user's message.
SendMessage ==
    /\ \E t \in Handlers :
         /\ handler[t] = HandlerIdle
         /\ Len(logs_buffer) < MaxAppends
         /\ logs_buffer' = Append(logs_buffer, LogEntry("user_message"))
         /\ response' = [route |-> "send_message", status |-> "sent"]
    /\ UNCHANGED <<mcp_process, procs, handler>>
    /\ UNCHANGED <<pqvars, vmvars, gmvars, toolvars, mainvars>>

----------------------------------------------------------------------------
(* Specifications.                                                         *)

Init == PQInit /\ VMIdle /\ GMIdle /\ ToolsIdle /\ MainIdle /\ MonIdle

Next ==
    \/ ProcessQuery
    \/ ListTools
    \/ InitialCompletion
    \/ WhileLoop
    \/ ForNext
    \/ CallTool
    \/ NextCompletion

\* One call of process_query.
Spec == Init /\ [][Next]_vars

InitVM == PQInit /\ VMInit /\ GMIdle /\ ToolsIdle /\ MainIdle /\ MonIdle

NextVM ==
    \/ ValidateStart
    \/ ValidateTable
    \/ ValidateReturn

\* One call of validate_mapping, over every request and database state.
SpecVM == InitVM /\ [][NextVM]_vars

InitGM == PQInit /\ VMIdle /\ GMInit /\ ToolsIdle /\ MainIdle /\ MonIdle

NextGM == GetMappingDetailsCall

\* Calls of get_mapping_details on one mapping.xlsx.
SpecGM == InitGM /\ [][NextGM]_vars

\* The tool is called with any input, well formed or not.
VMInitAny ==
    /\ vm_pc = "start"
    /\ db \in BOOLEAN
    /\ request \in Requests \cup MalformedRequests
    /\ tables_to_check = <<>>
    /\ available_tables = <<>>
    /\ validations = <<>>
    /\ lookups = <<>>
    /\ vm_result = NoResult

InitVMAny == PQInit /\ VMInitAny /\ GMIdle /\ ToolsIdle /\ MainIdle /\ MonIdle

\* One call of validate_mapping, over every input.
SpecVMAny == InitVMAny /\ [][NextVM]_vars

----------------------------------------------------------------------------
\* One call of run_bash_shell or of query_database.
InitTools == PQInit /\ VMIdle /\ GMIdle /\ ToolsIdle /\ MainIdle /\ MonIdle

NextTools ==
    \/ RunBashShell
    \/ QueryDatabase

SpecTools == InitTools /\ [][NextTools]_vars

InitMain == PQInit /\ VMIdle /\ GMIdle /\ ToolsIdle /\ MainInit /\ MonIdle

NextMain ==
    \/ Main
    \/ ConnectToServer
    \/ ChatLoop
    \/ Cleanup

\* One run of the client program.
SpecMain == InitMain /\ [][NextMain]_vars

InitChat == PQInit /\ VMIdle /\ GMIdle /\ ToolsIdle /\ MainConnected /\ MonIdle

NextChat ==
    \/ ProcessQuery
    \/ ListTools
    \/ InitialCompletion
    \/ WhileLoop
    \/ ForNext
    \/ CallTool
    \/ NextCompletion
    \/ ChatLoopNext

\* The queries of one connected chat_loop, one after the other.
SpecChat == InitChat /\ [][NextChat]_vars

InitMonitor == PQInit /\ VMIdle /\ GMIdle /\ ToolsIdle /\ MainIdle /\ MonIdle

NextMonitor ==
    \/ StartCheck
    \/ StartSpawn
    \/ StopProcess
    \/ ProcessExit
    \/ StreamAppend
    \/ StreamTrim
    \/ SendMessage

\* The monitor, its request handlers and its reader threads.
SpecMonitor == InitMonitor /\ [][NextMonitor]_vars

----------------------------------------------------------------------------
(* Properties of process_query, checked under Spec.                        *)

IsPrefix(s, t) == Len(s) <= Len(t) /\ SubSeq(t, 1, Len(s)) = s

\* A completion requests tool calls: its list is present and not empty.
RequestsTools(c) == ~c.tool_calls_none /\ c.tool_calls # <<>>

RECURSIVE RequestedIds(_)
\* The ids of the tool calls of a sequence of completions, in order.
RequestedIds(cs) ==
    IF cs = <<>> THEN <<>>
    ELSE [i \in 1..Len(cs[1].tool_calls) |-> cs[1].tool_calls[i].id]
         \o RequestedIds(Tail(cs))

DispatchedIds == [i \in 1..Len(dispatched) |-> dispatched[i].id]

\* C1: process_query stops within the configured number of turns: it never
\* begins a turn beyond MaxTurns (it would fail with a bounded-loop error
\* instead), whatever the backend returns.
C1_TerminatesWithinMaxTurns ==
    (\A k \in 1..Len(completions) : RequestsTools(completions[k])) =>
        turns <= MaxTurns

\* C2: when process_query returns, the calls dispatched to the tool session
\* are exactly the tool calls of the completions received, each once, in the
\* order the completions returned them.
C2_EveryRequestedCallDispatchedOnce ==
    pc = "returned" => DispatchedIds = RequestedIds(completions)

\* C3: a completion that requests no tool calls is the last event of the
\* call: no completion is received after it and no tool is invoked after it.
C3_NoToolsCompletionIsLast ==
    \A k \in 1..Len(completions) :
        ~RequestsTools(completions[k]) =>
            /\ k = Len(completions)
            /\ \A j \in 1..Len(dispatched) : dispatched[j].after < k

\* The first completion carries free text and requests no tool call.
FirstIsPlainText ==
    /\ completions # <<>>
    /\ Truthy(completions[1].content)
    /\ ~RequestsTools(completions[1])

\* C4: when the first completion has free text and no tool calls, no tool is
\* invoked, nothing is raised, and what is returned is that free text.
C4_PlainTextIsReturned ==
    FirstIsPlainText =>
        /\ dispatched = <<>>
        /\ raised = "None"
        /\ pc = "returned" => returned = completions[1].content

IsRequestMessage(m) == m.tool_calls # <<>>

\* The number of tool-call request messages among the first i messages.
RequestsUpTo(i) == Cardinality({k \in 1..i : IsRequestMessage(messages[k])})

\* C5: in the transcript every tool-call request message is immediately
\* followed by the result message of that call (its tool name and the
\* content the session returned for it), then by the continue prompt; so
\* all three precede the request message of any later call.
C5_RequestResultContinue ==
    \A i \in 1..Len(messages) :
        IsRequestMessage(messages[i]) =>
            LET j == RequestsUpTo(i)
            IN  /\ i + 2 <= Len(messages)
                /\ j <= Len(dispatched)
                /\ Len(messages[i].tool_calls) = 1
                /\ messages[i].tool_calls[1].id = dispatched[j].id
                /\ messages[i].tool_calls[1].name = dispatched[j].name
                /\ messages[i + 1].tool_calls = <<>>
                /\ messages[i + 1].content =
                       <<"Response from tool ", dispatched[j].name, "\n",
                         dispatched[j].result>>
                /\ messages[i + 2].tool_calls = <<>>
                /\ messages[i + 2].role = "user"
                /\ messages[i + 2].content = <<"Go to next step">>

\* Two tool exchanges are in the transcript.
C5_Witness ==
    /\ Len(dispatched) >= 2
    /\ RequestsUpTo(Len(messages)) >= 2

\* C6: during a call the transcript only grows at its end, and it begins
\* with the system instruction followed by the user's query.
C6_TranscriptAppendOnly ==
    /\ [](pc # "idle" =>
            /\ Len(messages) >= 2
            /\ messages[1].role = "system"
            /\ messages[1].content = <<SystemInstruction>>
            /\ messages[2].role = "user"
            /\ messages[2].content = <<query>>)
    /\ [][pc # "idle" => IsPrefix(messages, messages')]_vars

\* The transcript has grown twice beyond the two opening messages.
C6_Witness ==
    /\ pc = "create_next"
    /\ Len(messages) >= 8
    /\ messages[2].content = <<query>>

\* C7: an error of the model backend or of the tool session leaves
\* process_query as that same error.
C7_SameErrorReraised ==
    (pc = "raised" /\ thrown # "None") => raised = thrown

----------------------------------------------------------------------------
(* Properties of validate_mapping, checked under SpecVM.                   *)

\* The table named by a descriptor is in the catalog validate_mapping read.
InCatalog(table_data) == InSeq(table_data.tablename, available_tables)

\* C8: the overall valid flag is true exactly when every requested table is
\* in the catalog and no entry of the result lists an invalid column.
C8_ValidIffAllExistAndNoInvalid ==
    vm_pc = "done" =>
        /\ vm_result.success
        /\ vm_result.valid <=>
              /\ \A i \in DOMAIN request.tables : InCatalog(request.tables[i])
              /\ \A i \in DOMAIN vm_result.validations :
                    Get(vm_result.validations[i], "invalid_columns", <<>>) = <<>>

\* A request of existing tables and existing columns was found valid.
C8_Witness ==
    /\ vm_pc = "done"
    /\ vm_result.valid
    /\ Len(request.tables) >= 2
    /\ \E i \in DOMAIN request.tables : request.tables[i].columnNames # <<>>

\* C9: for a table of the catalog, each requested column is marked existing
\* exactly when it is a column of that table in the database, and
\* valid_columns / invalid_columns split the requested columns, in request
\* order, by that membership.
C9_ColumnsMarkedByMembership ==
    vm_pc = "done" =>
        \A i \in DOMAIN vm_result.validations :
            LET v == vm_result.validations[i]
                cols == request.tables[i].columnNames
                member == [k \in 1..Len(cols) |-> InSeq(cols[k], Schema[v.table])]
            IN  v.exists =>
                    /\ Len(v.column_validations) = Len(cols)
                    /\ \A k \in 1..Len(cols) :
                          /\ v.column_validations[k].column = cols[k]
                          /\ v.column_validations[k].exists = member[k]
                    /\ v.valid_columns = Filter(cols, member)
                    /\ v.invalid_columns = Filter(cols, [k \in 1..Len(cols) |-> ~member[k]])

\* C10: a requested table that is not in the catalog is reported with
\* exists = false and no column validations, its columns are never fetched,
\* the overall result is not valid, and every other table of the request is
\* still validated.
C10_MissingTableSkipped ==
    vm_pc = "done" =>
        /\ Len(vm_result.validations) = Len(request.tables)
        /\ \A i \in DOMAIN request.tables :
              LET td == request.tables[i]
                  v == vm_result.validations[i]
              IN  /\ v.table = td.tablename
                  /\ ~InCatalog(td) =>
                        /\ ~v.exists
                        /\ v.column_validations = <<>>
                        /\ ~InSeq(td.tablename, lookups)
                        /\ ~vm_result.valid
                  /\ InCatalog(td) =>
                        /\ v.exists
                        /\ Len(v.column_validations) = Len(td.columnNames)
                        /\ InSeq(td.tablename, lookups)

\* A missing table with requested columns came first, and the table after it
\* was validated column by column.
C10_Witness ==
    /\ vm_pc = "done"
    /\ Len(request.tables) >= 2
    /\ ~InCatalog(request.tables[1])
    /\ request.tables[1].columnNames # <<>>
    /\ InCatalog(request.tables[2])
    /\ vm_result.validations[2].column_validations # <<>>

----------------------------------------------------------------------------
(* Properties of validate_mapping on any input, checked under SpecVMAny.   *)

\* C11: for an input that is neither a dict with a 'tables' list nor a
\* list, validate_mapping returns success = false with a non-empty errors
\* list.
C11_MalformedInputFails ==
    (vm_pc = "done" /\ request \in MalformedRequests) =>
        /\ ~vm_result.success
        /\ vm_result.errors # <<>>

----------------------------------------------------------------------------
(* Properties of get_mapping_details, checked under SpecGM.                *)

\* Two reference names are equal when case is ignored.
SameIgnoringCase(a, b) ==
    \/ a = b
    \/ {a, b} \subseteq {"orders_to_fact", "Orders_To_Fact", "ORDERS_TO_FACT"}
    \/ {a, b} \subseteq {"nan", "NaN"}

\* C12: on one mapping source, two calls whose reference names are equal
\* ignoring case return the same success flag and the same mapping_data.
C12_ResolutionCaseInsensitive ==
    \A i, j \in DOMAIN gm_log :
        SameIgnoringCase(gm_log[i].name, gm_log[j].name) =>
            /\ gm_log[i].out.result.success = gm_log[j].out.result.success
            /\ gm_log[i].out.result.mapping_data = gm_log[j].out.result.mapping_data

\* Two case variants of a name were resolved, and rows were found.
C12_Witness ==
    \E i, j \in DOMAIN gm_log :
        /\ gm_log[i].name = "orders_to_fact"
        /\ gm_log[j].name = "Orders_To_Fact"
        /\ gm_log[i].out.result.success
        /\ Len(gm_log[i].out.result.mapping_data) >= 2

\* The rows of the sheet whose identity cell, as text, is the name ignoring
\* case; the identity cell is the first cell of the row.
MatchingRows(sheet, name) ==
    {i \in DOMAIN sheet.rows :
        \E h \in {"Mapping Name", "Name"} \cap DOMAIN sheet.rows[i] :
            SameIgnoringCase(sheet.rows[i][h], name)}

C14_SuccessCarriesHints ==
    \A i \in DOMAIN gm_log :
        gm_log[i].out.result.success =>
            "sql_generation_hints" \in DOMAIN gm_log[i].out.result

\* C15: in the hints, the expression of a Field Mapping row is the row's
\* transformation logic whenever it has one, and alias.definition only when
\* it has none.
C15_ExplicitExpressionWins ==
    \A i \in DOMAIN gm_log :
        gm_log[i].out.hints.computed =>
            LET fields == TypedRecords(gm_log[i].out.result.mapping_data, {"Field Mapping"})
                hinted == gm_log[i].out.hints.sql_generation_hints.field_mappings
            IN  \A k \in DOMAIN fields :
                    /\ fields[k].transformation_logic # Null =>
                          hinted[k].expression = <<fields[k].transformation_logic>>
                    /\ hinted[k].expression = <<fields[k].alias, ".", fields[k].definition>> =>
                          fields[k].transformation_logic = Null

\* What the function computes for the end-to-end scenario of the
\* specification, in its local sql_generation_hints.
ScenarioHintsComputed ==
    \A i \in DOMAIN gm_log :
        (/\ gm_log[i].out.hints.computed
         /\ Len(gm_log[i].out.result.mapping_data) = 2
         /\ gm_log[i].out.result.mapping_data[1].type = "Table"
         /\ gm_log[i].out.result.mapping_data[2].target_field_name = "order_total"
         /\ gm_log[i].out.result.mapping_data[2].alias = "o") =>
            LET fm == gm_log[i].out.hints.sql_generation_hints.field_mappings
            IN  Len(fm) = 1 /\ fm[1].expression = <<"o", ".", "total">>

----------------------------------------------------------------------------
(* Properties of the tool functions, checked under SpecTools.              *)

\* C16: no tool operation lets a failure inside it leave the function as an
\* exception: every call ends by returning a value.
C16_NoExceptionEscapesTool == tool_out.raised = ""

----------------------------------------------------------------------------
(* Properties of main, checked under SpecMain.                             *)

Position(e) == {i \in DOMAIN session_log : session_log[i] = e}

\* C17: the session is initialized, then lists tools, then is called, then is
\* shut down: every call_tool comes after the completed initialize and a
\* list_tools and before the shutdown, and once main has created a client and
\* has exited, cleanup has run, has left every context entered, closing the
\* session and then ending its process.
C17_InitializeCallShutdown ==
    /\ \A i \in Position("call_tool") :
         /\ \E j \in Position("initialize") : j < i
         /\ \E j \in Position("list_tools") : j < i
         /\ \A j \in Position("close") \cup Position("terminate") : i < j
    /\ \A i \in Position("initialize") \cup Position("list_tools") :
         \A j \in Position("close") \cup Position("terminate") : i < j
    /\ (main_pc = "exited" /\ client) =>
         /\ cleaned
         /\ exit_stack = <<>>
         /\ Position("spawn") # {} =>
              session_log[Len(session_log)] = "terminate"
         /\ Position("open") # {} =>
              /\ Position("close") # {}
              /\ \A i \in Position("close") : \A j \in Position("terminate") : i < j

\* An interrupt left the chat loop after tools had been called, and main has
\* exited.
C17_Witness ==
    /\ main_pc = "exited"
    /\ client
    /\ main_exc = "KeyboardInterrupt"
    /\ Position("call_tool") # {}
    /\ cleaned

\* Connecting failed after the process was started, and main has exited.
FailedConnectCleaned ==
    main_pc = "exited" /\ main_exc = "Exception" /\ Position("spawn") # {} /\ cleaned

----------------------------------------------------------------------------
(* Properties of the text process_query returns and of what it dispatches, *)
(* checked under Spec.                                                     *)

\* The free text of the k-th completion received, if it has any.
ContentOf(k) ==
    IF Truthy(completions[k].content) THEN <<completions[k].content>> ELSE <<>>

RECURSIVE FreeText(_)
\* The free-text fragments of the completions from the k-th on.
FreeText(k) ==
    IF k > Len(completions) THEN <<>> ELSE ContentOf(k) \o FreeText(k + 1)

\* The tool call a completion made under this id.
RequestedCall(id) ==
    CHOOSE c \in UNION {Range(completions[k].tool_calls) : k \in DOMAIN completions} :
        c.id = id

RECURSIVE MarkersAfter(_, _)
\* The calling markers of the calls dispatched after the k-th completion and
\* before the next one, from the j-th dispatched call on.
MarkersAfter(k, j) ==
    IF j > Len(dispatched) THEN <<>>
    ELSE (IF dispatched[j].after = k
          THEN <<CallingFragment(RequestedCall(dispatched[j].id))>>
          ELSE <<>>) \o MarkersAfter(k, j + 1)

RECURSIVE Recorded(_)
\* The free text of each completion from the k-th on, each followed by the
\* markers of the calls dispatched after it.
Recorded(k) ==
    IF k > Len(completions) THEN <<>>
    ELSE ContentOf(k) \o MarkersAfter(k, 1) \o Recorded(k + 1)

\* C18, as the claim states it: the returned text is the free-text fragments
\* of the completions received, in order, joined, and nothing else.
C18_ReturnedIsFreeTextOnly ==
    pc = "returned" => returned = Join(FreeText(1))

\* C18, amended: the returned text is the newline-separated sequence, in the
\* order produced, of the non-empty free text of every completion received
\* and of one "[Calling tool ... with args ...]" marker for every tool call
\* dispatched; nothing else is added and none of these is omitted.
C18_ReturnedIsTextAndMarkers ==
    pc = "returned" => returned = Join(Recorded(1))

\* A query returned after two tool calls, with text before and after them.
C18_Witness ==
    /\ pc = "returned"
    /\ Len(dispatched) >= 2
    /\ Truthy(completions[1].content)
    /\ Truthy(completions[Len(completions)].content)

\* C19: every call dispatched to the tool session names a tool the session
\* published.
C19_OnlyPublishedToolsDispatched ==
    \A i \in DOMAIN dispatched : dispatched[i].name \in ToolNames

\* C20: the backend is asked for one completion per turn: beyond the initial
\* completion there are no more completions than turns begun.
C20_OneCompletionPerTurn == Len(completions) <= turns + 1

\* C21: the message appended after a tool-call request message, holding the
\* result of that call, has the tool-result role and carries the id of the
\* request it answers.
C21_ResultCarriesRequestId ==
    \A i \in DOMAIN messages :
        (IsRequestMessage(messages[i]) /\ i < Len(messages)) =>
            /\ messages[i + 1].role = "tool"
            /\ "tool_call_id" \in DOMAIN messages[i + 1]
            /\ messages[i + 1].tool_call_id = messages[i].tool_calls[1].id

----------------------------------------------------------------------------
(* Properties of successive queries, checked under SpecChat.               *)

\* C22: every call of process_query, whatever the previous call did, works on
\* a transcript that opens with the system instruction and its own query and
\* holds beyond them only the exchanges of its own tool calls; and after a
\* failed query chat_loop goes on with the session still open.
C22_QueriesIndependent ==
    /\ pc # "idle" =>
         /\ SubSeq(messages, 1, 2) = InitialTranscript(query)
         /\ Len(messages) = 2 + 3 * Len(dispatched)
    /\ pc = "list_tools" => messages = InitialTranscript(query)
    /\ chat_prev = "error" =>
         /\ main_pc = "chat"
         /\ exit_stack = ConnectStack("none")
         /\ ~cleaned

\* A query that follows a failed one has dispatched a tool call and returned.
C22_Witness ==
    /\ chat_prev = "error"
    /\ pc = "returned"
    /\ Len(dispatched) >= 1
    /\ SubSeq(messages, 1, 2) = InitialTranscript(query)

----------------------------------------------------------------------------
(* Further properties of get_mapping_details, checked under SpecGM.        *)

\* The rows of the sheet whose first cell, as text, is the name ignoring case.
FirstColumnMatches(sheet, name) ==
    {i \in DOMAIN sheet.rows :
        SameIgnoringCase(AsStr(sheet.rows[i][sheet.columns[1]]), name)}

\* The result is a failure that reports an exception of the processing.
ProcessingError(result) ==
    /\ ~result.success
    /\ result.errors[1][1] = "An error occurred while processing the mapping file: "

\* C23: on a sheet without the header 'Mapping Name' the first column is the
\* identity column: a reference name that a row carries in its first column
\* is resolved to that row.
C23_FirstColumnFallbackResolves ==
    \A i \in DOMAIN gm_log :
        ( /\ gm_sheet.readable
          /\ ~InSeq(MappingRefColHeader, gm_sheet.columns)
          /\ Len(gm_sheet.columns) > 0
          /\ FirstColumnMatches(gm_sheet, gm_log[i].name) # {} )
        => \/ /\ gm_log[i].out.result.success
              /\ Len(gm_log[i].out.result.mapping_data)
                    = Cardinality(FirstColumnMatches(gm_sheet, gm_log[i].name))
           \/ ProcessingError(gm_log[i].out.result)

\* The rows of the sheet that carry the name and are typed Target.
TargetRows(sheet, name) ==
    {i \in MatchingRows(sheet, name) : sheet.rows[i]["Type"] = "Target"}

\* A cell as the record of the result holds it.
CellValue(v) == IF IsNa(v) THEN Null ELSE v

\* C24: in the hints computed for a resolved mapping the target is taken from
\* the first row typed Target, in the order of the sheet, also when several
\* rows are typed Target, and the resolution succeeds; without a row typed
\* Target the target hint is empty.
C24_FirstTargetRowUsed ==
    \A i \in DOMAIN gm_log :
        LET out == gm_log[i].out
            targets == TargetRows(gm_sheet, gm_log[i].name)
        IN  /\ out.hints.computed =>
                 /\ out.result.success
                 /\ IF targets = {}
                    THEN out.hints.sql_generation_hints.target = EmptyDict
                    ELSE LET first == CHOOSE r \in targets : \A q \in targets : r <= q
                         IN  out.hints.sql_generation_hints.target =
                               [alias |-> CellValue(gm_sheet.rows[first]["Alias"]),
                                load_strategy |->
                                    CellValue(gm_sheet.rows[first]["Load Strategy"])]
            /\ (out.result.success /\ Cardinality(targets) >= 2) => out.hints.computed
            /\ (gm_sheet.columns = RequiredColumns /\ Cardinality(targets) >= 2) =>
                 (out.result.success \/ ProcessingError(out.result))

\* A mapping with two rows typed Target of different alias was resolved.
C24_Witness ==
    \E i \in DOMAIN gm_log :
        /\ gm_log[i].out.hints.computed
        /\ Cardinality(TargetRows(gm_sheet, gm_log[i].name)) >= 2
        /\ gm_sheet.rows[1]["Alias"] # gm_sheet.rows[2]["Alias"]
        /\ gm_log[i].out.hints.sql_generation_hints.target.alias = gm_sheet.rows[1]["Alias"]

----------------------------------------------------------------------------
(* Properties of the monitor, checked under SpecMonitor.                   *)

\* C25: whenever no reader thread is between its append and its trim, the log
\* buffer holds at most MAX_LOGS entries.
C25_BufferWithinMaxLogs ==
    (\A pid \in DOMAIN procs : procs[pid].reader # "appended") =>
        Len(logs_buffer) <= MAX_LOGS

\* The processes of a kind that the monitor started and that are running.
RunningProcesses(kind) ==
    {pid \in DOMAIN procs : procs[pid].kind = kind /\ procs[pid].alive}

\* C26: of each kind, at most one process started by the monitor is running.
C26_AtMostOneRunning ==
    \A kind \in Kinds : Cardinality(RunningProcesses(kind)) <= 1

====
